---------------------------- MODULE Spec2Model ----------------------------
(***************************************************************************)
(* Model of the mailbox ingestion pipeline of src/analysis.py: the message *)
(* normalizer (decode_mime_header, parse_date_to_iso,                      *)
(* get_plain_text_preview), the schema setup (init_db), the batching loop  *)
(* (ingest) and the transactional flush (flush_batch) against a SQLite     *)
(* store.                                                                  *)
(*                                                                         *)
(* Text is a sequence of one-character strings, bytes are a sequence of    *)
(* byte tokens, so that slicing, joining and decoding are computed.        *)
(***************************************************************************)
EXTENDS Integers, Sequences, FiniteSets, TLC

(***************************************************************************)
(* Bounds of the model.                                                    *)
(***************************************************************************)
\* longest source mailbox explored
MaxMsgs == 3
\* ingest is run at most this many times against the same source and store
MaxRuns == 2
\* BATCH_SIZE ranges over 1..MaxBatch (2000 in the code, scaled down)
MaxBatch == 3
\* progress interval (10_000 in the code, scaled down)
PROGRESS_EVERY == 2
\* preview limit (2000 in the code, scaled down)
PREVIEW_LIMIT == 4

(***************************************************************************)
(* Characters, bytes and charsets.                                         *)
(***************************************************************************)
\* Python's None
None == "None"

\* the replacement character U+FFFD that errors="replace" substitutes
REPLACEMENT == "U+FFFD"

\* codecs Python knows; any other charset name raises LookupError
KnownCharsets == {"utf-8", "iso-8859-1"}

\* bytes.decode(charset, errors="replace") of one byte: the byte 0xE9 alone is
\* invalid UTF-8 (replaced) and is e-acute in Latin-1; ASCII bytes are themselves
DecodeByte(b, charset) ==
  IF b = "0xE9"
  THEN IF charset = "utf-8" THEN REPLACEMENT ELSE "e-acute"
  ELSE b

\* bytes.decode(charset, errors="replace"): raises LookupError (ok = FALSE) for an
\* unknown codec, never for invalid bytes
BytesDecode(bytes, charset) ==
  IF charset \in KnownCharsets
  THEN [ok |-> TRUE, text |-> [k \in 1..Len(bytes) |-> DecodeByte(bytes[k], charset)]]
  ELSE [ok |-> FALSE, text |-> <<>>]

\* a or b on Python values where None is the only falsy value that occurs
OrElse(a, b) == IF a = None THEN b ELSE a

(***************************************************************************)
(* Raw headers.  A header is a sequence of chunks, empty when the header   *)
(* is absent: plain ASCII text, an RFC 2047 encoded-word with its declared *)
(* charset and its bytes, or raw non-ASCII bytes.                          *)
(***************************************************************************)
TextChunk(s) == [k |-> "text", cs |-> None, b |-> s]
WordChunk(cs, b) == [k |-> "word", cs |-> cs, b |-> b]
Raw8Chunk(b) == [k |-> "raw8", cs |-> None, b |-> b]

RECURSIVE Join(_)
\* "".join(parts)
Join(parts) == IF parts = <<>> THEN <<>> ELSE Head(parts) \o Join(Tail(parts))

\* the literal text of one chunk as it stands in the header line
ChunkLiteral(c) ==
  IF c.k = "word" THEN <<"=?", c.cs, "?q?">> \o c.b \o <<"?=">> ELSE c.b

\* msg.get(name, ""): "" for an absent header, a str for an ASCII header, and an
\* email.header.Header object (charset unknown-8bit) when the header holds raw
\* non-ASCII bytes
MsgGet(raw) ==
  [hdr |-> \E n \in 1..Len(raw) : raw[n].k = "raw8",
   s |-> Join([n \in 1..Len(raw) |-> ChunkLiteral(raw[n])]),
   chunks |-> raw]

\* truth value of what msg.get returns: a Header object is always true, a str
\* is true when non-empty
Truthy(v) == v.hdr \/ v.s # <<>>

\* email.header.decode_header(value): the (text, charset) pairs; bytes = FALSE
\* marks a str part.  A value without encoded-words comes back as one str part;
\* with encoded-words every part is bytes; a Header object comes back as its
\* bytes with the charset unknown-8bit.
DecodeHeader(v) ==
  IF v.hdr
  THEN << [bytes |-> TRUE, text |-> v.s, enc |-> "unknown-8bit"] >>
  ELSE IF \A n \in 1..Len(v.chunks) : v.chunks[n].k # "word"
       THEN << [bytes |-> FALSE, text |-> v.s, enc |-> None] >>
       ELSE [n \in 1..Len(v.chunks) |->
               [bytes |-> TRUE, text |-> v.chunks[n].b, enc |-> v.chunks[n].cs]]

\* one iteration of the loop of decode_mime_header
DecodePart(p) ==
  IF p.bytes THEN BytesDecode(p.text, OrElse(p.enc, "utf-8"))
  ELSE [ok |-> TRUE, text |-> p.text]

\* mutant of decode_mime_header: the header value stored as it stands
decode_mime_header_Undecoded(v) == [ok |-> TRUE, text |-> v.s]

\* decode_mime_header(value): ok = FALSE when an exception leaves the function
decode_mime_header(v) ==
  IF ~Truthy(v) THEN [ok |-> TRUE, text |-> <<>>]
  ELSE LET parts == [n \in 1..Len(DecodeHeader(v)) |-> DecodePart(DecodeHeader(v)[n])]
       IN IF \A n \in 1..Len(parts) : parts[n].ok
          THEN [ok |-> TRUE, text |-> Join([n \in 1..Len(parts) |-> parts[n].text])]
          ELSE [ok |-> FALSE, text |-> <<>>]

(***************************************************************************)
(* Dates.  A Date header is absent, unparseable, or a date of a small      *)
(* calendar: a day (0 = 2023-12-31, 1 = 2024-01-01, 2 = 2024-01-02), an    *)
(* hour, a minute and a UTC offset in hours (tz = FALSE: no offset, the    *)
(* parser returns a naive datetime).                                       *)
(***************************************************************************)
AbsentDate == [k |-> "absent", day |-> 0, hour |-> 0, min |-> 0, tz |-> FALSE, off |-> 0]
GarbageDate == [k |-> "garbage", day |-> 0, hour |-> 0, min |-> 0, tz |-> FALSE, off |-> 0]
DateOf(d, h, m, off) == [k |-> "date", day |-> d, hour |-> h, min |-> m, tz |-> TRUE, off |-> off]
NaiveDateOf(d, h, m) == [k |-> "date", day |-> d, hour |-> h, min |-> m, tz |-> FALSE, off |-> 0]

Digit(n) == <<"0", "1", "2", "3", "4", "5", "6", "7", "8", "9">>[n + 1]
TwoDigits(n) == <<Digit(n \div 10), Digit(n % 10)>>

\* the calendar the model covers
DayText(d) ==
  CASE d = 0 -> <<"2", "0", "2", "3", "-", "1", "2", "-", "3", "1">>
    [] d = 1 -> <<"2", "0", "2", "4", "-", "0", "1", "-", "0", "1">>
    [] d = 2 -> <<"2", "0", "2", "4", "-", "0", "1", "-", "0", "2">>

\* dt.astimezone(timezone.utc) in minutes since day 0; a naive datetime is taken
\* as UTC
UtcMinutes(date) ==
  date.day * 1440 + date.hour * 60 + date.min
    - (IF date.tz THEN date.off * 60 ELSE 0)

\* dt_utc.isoformat(timespec="seconds")
IsoFormat(mins) ==
  DayText(mins \div 1440) \o <<"T">> \o TwoDigits((mins % 1440) \div 60) \o <<":">>
    \o TwoDigits(mins % 60) \o <<":", "0", "0", "+", "0", "0", ":", "0", "0">>

\* parse_date_to_iso(date_str): "" for an absent header and for any exception
\* of the parser
parse_date_to_iso(date) ==
  IF date.k = "absent" THEN <<>>
  ELSE IF date.k = "garbage" THEN <<>>
  ELSE IsoFormat(UtcMinutes(date))

\* s[:n]
Prefix(s, n) == SubSeq(s, 1, IF Len(s) < n THEN Len(s) ELSE n)

\* mutant of DateDay: the slice two characters short
DateDay_ShortSlice(date_iso) == IF date_iso # <<>> THEN Prefix(date_iso, 8) ELSE <<>>

\* date_iso[:10] if date_iso else ""
DateDay(date_iso) == IF date_iso # <<>> THEN Prefix(date_iso, 10) ELSE <<>>

(***************************************************************************)
(* Bodies.  A body is single-part (one part, the message itself) or        *)
(* multipart (the parts in document order below the multipart root).       *)
(***************************************************************************)
Part(ctype, disp, charset, payload) ==
  [ctype |-> ctype, disp |-> disp, charset |-> charset, payload |-> payload]

SinglePart(part) == [multipart |-> FALSE, parts |-> <<part>>]
MultiPart(parts) == [multipart |-> TRUE, parts |-> parts]

\* the multipart container itself, the first element msg.walk() yields
RootPart == Part("multipart/mixed", None, None, <<>>)

\* mutant of LowerDisp: the disposition compared without lower()
LowerDisp_CaseSensitive(disp) == IF disp = None THEN "" ELSE disp

\* (part.get("Content-Disposition") or "").lower()
LowerDisp(disp) ==
  CASE disp = None -> ""
    [] disp = "ATTACHMENT; filename=a.txt" -> "attachment; filename=a.txt"
    [] OTHER -> disp

\* "attachment" in disp
HasAttachment(disp) == disp \in {"attachment", "attachment; filename=a.txt"}

\* payload.decode(charset, errors="replace")[:limit] of one part; ok = FALSE
\* when the codec lookup raises
PartText(part, limit) ==
  LET d == BytesDecode(part.payload, OrElse(part.charset, "utf-8"))
  IN [ok |-> d.ok, text |-> Prefix(d.text, limit)]

RECURSIVE WalkScan(_, _)
\* the loop over msg.walk(): the first text/plain part that is no attachment
\* and has a non-empty payload returns; "" when the walk ends
WalkScan(parts, limit) ==
  IF parts = <<>> THEN [ok |-> TRUE, text |-> <<>>]
  ELSE LET part == Head(parts)
       IN IF part.ctype = "text/plain"
             /\ ~HasAttachment(LowerDisp(part.disp))
             /\ part.payload # <<>>
          THEN PartText(part, limit)
          ELSE WalkScan(Tail(parts), limit)

\* get_plain_text_preview(msg, limit): any exception yields ""
get_plain_text_preview(body, limit) ==
  LET r == IF body.multipart
           THEN WalkScan(<<RootPart>> \o body.parts, limit)
           ELSE IF body.parts[1].payload # <<>>
                THEN PartText(body.parts[1], limit)
                ELSE [ok |-> TRUE, text |-> <<>>]
  IN IF r.ok THEN r.text ELSE <<>>

(***************************************************************************)
(* Messages of the source mailbox.                                         *)
(***************************************************************************)
Message(mid, date, from, to, cc, subject, body) ==
  [MessageId |-> mid, Date |-> date, From |-> from, To |-> to, Cc |-> cc,
   Subject |-> subject, Body |-> body]

NoHeader == <<>>
IdA == <<TextChunk(<<"<", "a", ">">>)>>
IdB == <<TextChunk(<<"<", "b", ">">>)>>

\* Message-Id <a>, Subject =?utf-8?q?Hi?=, Date 01 Jan 2024 10:00 +0000
MsgA ==
  Message(IdA, DateOf(1, 10, 0, 0), <<TextChunk(<<"x">>)>>, <<TextChunk(<<"y">>)>>,
          NoHeader, <<WordChunk("utf-8", <<"H", "i">>)>>,
          SinglePart(Part("text/plain", None, None, <<"a">>)))

\* the same Message-Id on a different message: a date east of UTC, an
\* attachment before the plain-text part
MsgA2 ==
  Message(IdA, DateOf(1, 0, 30, 1), <<TextChunk(<<"z">>)>>, NoHeader, NoHeader,
          <<TextChunk(<<"R", "e">>)>>,
          MultiPart(<<Part("text/plain", "ATTACHMENT; filename=a.txt", None, <<"f">>),
                      Part("text/plain", None, "iso-8859-1", <<"0xE9">>)>>))

\* Message-Id <b>, a date without offset, a subject mixing charsets with a
\* byte that is invalid UTF-8, a body longer than the preview limit
MsgB ==
  Message(IdB, NaiveDateOf(2, 23, 59), NoHeader, <<TextChunk(<<"y">>)>>, NoHeader,
          <<WordChunk("iso-8859-1", <<"0xE9">>), WordChunk("utf-8", <<"0xE9">>)>>,
          SinglePart(Part("text/plain", None, "utf-8", <<"l", "o", "n", "g", "e", "r">>)))

\* no Message-Id, Date "not a date", only an attachment and a part whose
\* charset Python does not know
MsgC ==
  Message(NoHeader, GarbageDate, NoHeader, NoHeader, NoHeader, <<TextChunk(<<"c">>)>>,
          MultiPart(<<Part("application/pdf", "attachment", None, <<"p">>),
                      Part("text/plain", "inline", "x-nope", <<"q">>)>>))

\* a Subject whose encoded-word declares a charset Python does not know
MsgBadCharset ==
  Message(IdB, AbsentDate, NoHeader, NoHeader, NoHeader,
          <<WordChunk("x-nope", <<"H", "i">>)>>,
          SinglePart(Part("text/plain", None, None, <<>>)))

\* a Message-Id holding raw non-ASCII bytes
MsgRawId ==
  Message(<<Raw8Chunk(<<"<", "0xE9", ">">>)>>, GarbageDate, NoHeader, NoHeader, NoHeader,
          <<TextChunk(<<"r">>)>>, SinglePart(Part("text/plain", None, None, <<"r">>)))

Messages == {MsgA, MsgA2, MsgB, MsgC, MsgBadCharset, MsgRawId}

RECURSIVE SeqsUpTo(_, _)
\* the sequences over S of length at most n
SeqsUpTo(S, n) ==
  IF n = 0 THEN {<<>>}
  ELSE LET shorter == SeqsUpTo(S, n - 1)
       IN shorter \cup {Append(q, x) : q \in {r \in shorter : Len(r) = n - 1}, x \in S}

(***************************************************************************)
(* One iteration of the loop of ingest up to the row: ok = FALSE when an   *)
(* exception leaves the iteration.  message_id is what msg.get returned    *)
(* (a str or a Header object), every other field is a str.                 *)
(***************************************************************************)
\* ingest is called with store_preview=True
store_preview == TRUE

\* msg.get("Message-Id", "") or ""
MessageIdOf(msg) == [hdr |-> MsgGet(msg.MessageId).hdr, s |-> MsgGet(msg.MessageId).s]

NormalizeRow(msg) ==
  LET date_iso == parse_date_to_iso(msg.Date)
      from_addr == decode_mime_header(MsgGet(msg.From))
      to_addr == decode_mime_header(MsgGet(msg.To))
      cc_addr == decode_mime_header(MsgGet(msg.Cc))
      subject == decode_mime_header(MsgGet(msg.Subject))
  IN [ok |-> from_addr.ok /\ to_addr.ok /\ cc_addr.ok /\ subject.ok,
      row |-> [message_id |-> MessageIdOf(msg),
               date_iso |-> date_iso,
               date_day |-> DateDay(date_iso),
               from_addr |-> from_addr.text,
               to_addr |-> to_addr.text,
               cc_addr |-> cc_addr.text,
               subject |-> subject.text,
               body_preview |-> IF store_preview
                                THEN get_plain_text_preview(msg.Body, PREVIEW_LIMIT)
                                ELSE <<>>]]

(***************************************************************************)
(* The store: the emails table as the sequence of its rows in rowid order, *)
(* and the schema objects that exist.                                      *)
(***************************************************************************)
\* the table and the indexes init_db creates
SchemaObjects == {"emails", "idx_message_id", "idx_date_day", "idx_from", "idx_to", "idx_subject"}

\* mutant of init_db: the unique index on message_id is not created
init_db_NoUniqueIndex(schema) == schema \cup (SchemaObjects \ {"idx_message_id"})

\* CREATE ... IF NOT EXISTS for every object
init_db(schema) == schema \cup SchemaObjects

\* mutant of InitDbSucceeds: CREATE TABLE emails written without IF NOT EXISTS
\* raises "table emails already exists" on a store that has the table
InitDbSucceeds_PlainCreate(schema) == "emails" \notin schema

\* every statement of init_db carries IF NOT EXISTS, so none raises on a store
\* that has the object already
InitDbSucceeds(schema) == TRUE

\* mutant of TableAfterInitDb: the table dropped and created again
TableAfterInitDb_Recreated(db) == <<>>

\* the rows of emails after init_db: CREATE TABLE IF NOT EXISTS and CREATE
\* INDEX IF NOT EXISTS leave the rows of an existing table as they are
TableAfterInitDb(db) == db

\* sqlite3 binds str parameters; a Header object cannot be bound and the
\* statement raises
Bindable(row) == ~row.message_id.hdr

\* the row as stored: the bound values and the rowid the table assigns
StoredRow(db, row) ==
  [id |-> Len(db) + 1, message_id |-> row.message_id.s, date_iso |-> row.date_iso,
   date_day |-> row.date_day, from_addr |-> row.from_addr, to_addr |-> row.to_addr,
   cc_addr |-> row.cc_addr, subject |-> row.subject, body_preview |-> row.body_preview]

\* mutant of UniqueViolation: the index created without UNIQUE
UniqueViolation_PlainIndex(schema, db, row) == FALSE

\* the UNIQUE index idx_message_id rejects a message_id (a non-NULL value, the
\* empty string included) that a row of the table already has
UniqueViolation(schema, db, row) ==
  /\ "idx_message_id" \in schema
  /\ \E n \in 1..Len(db) : db[n].message_id = row.message_id.s

\* INSERT INTO emails: a uniqueness conflict raises IntegrityError and only the
\* statement is undone
Insert(schema, db, row) ==
  IF ~Bindable(row) THEN [ok |-> FALSE, db |-> db]
  ELSE IF UniqueViolation(schema, db, row) THEN [ok |-> FALSE, db |-> db]
  ELSE [ok |-> TRUE, db |-> Append(db, StoredRow(db, row))]

\* mutant of InsertOrIgnore: the statement written without OR IGNORE
InsertOrIgnore_PlainInsert(schema, db, row) == Insert(schema, db, row)

\* mutant of InsertOrIgnore: INSERT OR REPLACE, which deletes the row in
\* conflict and inserts the new one
InsertOrIgnore_Replace(schema, db, row) ==
  IF ~Bindable(row) THEN [ok |-> FALSE, db |-> db]
  ELSE IF UniqueViolation(schema, db, row)
       THEN LET rest == SelectSeq(db, LAMBDA r : r.message_id # row.message_id.s)
            IN [ok |-> TRUE, db |-> Append(rest, StoredRow(db, row))]
       ELSE [ok |-> TRUE, db |-> Append(db, StoredRow(db, row))]

\* INSERT OR IGNORE INTO emails: a uniqueness conflict leaves the table as it is
\* and raises nothing
InsertOrIgnore(schema, db, row) ==
  IF ~Bindable(row) THEN [ok |-> FALSE, db |-> db]
  ELSE IF UniqueViolation(schema, db, row) THEN [ok |-> TRUE, db |-> db]
  ELSE [ok |-> TRUE, db |-> Append(db, StoredRow(db, row))]

\* the statement flush_batch executes for one row
ExecuteRow(schema, db, row) ==
  IF Truthy(row.message_id) THEN InsertOrIgnore(schema, db, row)
  ELSE Insert(schema, db, row)

\* mutant of FlushOne: a row the store ignored is counted as skipped
FlushOne_IgnoredIsSkipped(schema, st, row) ==
  LET r == ExecuteRow(schema, st.db, row)
  IN IF r.ok /\ r.db # st.db
     THEN [db |-> r.db, inserted |-> st.inserted + 1, skipped |-> st.skipped]
     ELSE [db |-> r.db, inserted |-> st.inserted, skipped |-> st.skipped + 1]

\* mutant of FlushOne: the except clause passes without counting the row
FlushOne_FailureUncounted(schema, st, row) ==
  LET r == ExecuteRow(schema, st.db, row)
  IN IF r.ok
     THEN [db |-> r.db, inserted |-> st.inserted + 1, skipped |-> st.skipped]
     ELSE [db |-> r.db, inserted |-> st.inserted, skipped |-> st.skipped]

\* the body of the loop of flush_batch for one row: the table and the two
\* counters after it
FlushOne(schema, st, row) ==
  LET r == ExecuteRow(schema, st.db, row)
  IN IF r.ok
     THEN [db |-> r.db, inserted |-> st.inserted + 1, skipped |-> st.skipped]
     ELSE [db |-> r.db, inserted |-> st.inserted, skipped |-> st.skipped + 1]

RECURSIVE FlushRows(_, _, _)
\* the loop of flush_batch over a whole batch, from the table and counters st
FlushRows(schema, st, rows) ==
  IF rows = <<>> THEN st
  ELSE FlushRows(schema, FlushOne(schema, st, Head(rows)), Tail(rows))

\* flush_batch(conn, batch) as a function of the table it starts from
flush_batch(schema, db, rows) ==
  FlushRows(schema, [db |-> db, inserted |-> 0, skipped |-> 0], rows)

\* mutant of NextRow: the try/except around the loop, not inside it
NextRow_AbortOnFailure(pos, ok, len) == IF ok THEN pos + 1 ELSE len + 1

\* the position of flush_batch after a row: the except clause sits inside the
\* loop, so the loop goes on to the next row whether the insert raised or not
NextRow(pos, ok, len) == pos + 1

\* mutant of CommittedAfterExecute: a connection in autocommit mode
CommittedAfterExecute_Autocommit(durable, view) == view

\* the durable table after a statement executed inside the transaction that
\* sqlite3 opens implicitly before an INSERT: unchanged until commit
CommittedAfterExecute(durable, view) == durable

\* mutant of Accumulate: the total assigned, not added to
Accumulate_Assigned(total, delta) == delta

\* inserted += inserted_now, skipped += skipped_now
Accumulate(total, delta) == total + delta

\* mutant of BatchAfterFlush: batch.clear() is missing after the threshold flush
BatchAfterFlush_NotCleared(rows) == rows

\* batch.clear() after a threshold flush
BatchAfterFlush(rows) == <<>>

\* mutant of ProgressDue: the index of the message used, not the count
ProgressDue_OffByOne(count) == (count - 1) % PROGRESS_EVERY = 0

\* (i + 1) % 10_000 == 0, tested after a threshold flush only; count is i + 1,
\* the number of messages taken
ProgressDue(count) == count % PROGRESS_EVERY = 0

\* mutant of NeedsFinalFlush: the flush after the loop is missing
NeedsFinalFlush_Never(rows) == FALSE

\* if batch: the partial batch left when the stream ends is flushed
NeedsFinalFlush(rows) == rows # <<>>

(***************************************************************************)
(* The state of a run of ingest against the store.                         *)
(***************************************************************************)
VARIABLES
  source,        \* the mailbox: the messages in file order
  BATCH_SIZE,    \* the batch-size constant of ingest
  schema,        \* the schema objects of the store
  committed,     \* the durable rows of emails
  conn,          \* the rows as the open connection sees them (with uncommitted ones)
  pc,            \* idle, loop, flush, final_flush, done, aborted, crashed
  i,             \* messages of the source the loop has taken so far in this run
  batch,         \* the list batch of ingest
  j,             \* position of flush_batch in the batch
  inserted,      \* running totals of ingest
  skipped,
  inserted_now,  \* counters of the flush_batch call under way (then its result)
  skipped_now,
  flushes,       \* history: the batches passed to flush_batch in this run
  store0,        \* history: the durable rows when this run started
  outcomes,      \* history: how each run so far ended
  progress       \* the message counts at which a progress line was printed

vars ==
  <<source, BATCH_SIZE, schema, committed, conn, pc, i, batch, j, inserted, skipped,
    inserted_now, skipped_now, flushes, store0, outcomes, progress>>

Init ==
  /\ source \in SeqsUpTo(Messages, MaxMsgs)
  /\ BATCH_SIZE \in 1..MaxBatch
  /\ schema = {}
  /\ committed = <<>>
  /\ conn = <<>>
  /\ pc = "idle"
  /\ i = 0
  /\ batch = <<>>
  /\ j = 0
  /\ inserted = 0
  /\ skipped = 0
  /\ inserted_now = 0
  /\ skipped_now = 0
  /\ flushes = <<>>
  /\ store0 = <<>>
  /\ outcomes = <<>>
  /\ progress = <<>>

\* ingest up to the loop: connect, init_db, open the mailbox, reset the locals
Start ==
  /\ pc \in {"idle", "done", "aborted", "crashed"}
  /\ Len(outcomes) < MaxRuns
  /\ IF InitDbSucceeds(schema)
     THEN /\ schema' = init_db(schema)
          /\ committed' = TableAfterInitDb(committed)
          /\ pc' = "loop"
          /\ UNCHANGED outcomes
     ELSE /\ pc' = "aborted"
          /\ outcomes' = Append(outcomes, "aborted")
          /\ UNCHANGED <<schema, committed>>
  /\ conn' = committed'
  /\ store0' = committed'
  /\ i' = 0
  /\ batch' = <<>>
  /\ j' = 0
  /\ inserted' = 0
  /\ skipped' = 0
  /\ inserted_now' = 0
  /\ skipped_now' = 0
  /\ flushes' = <<>>
  /\ progress' = <<>>
  /\ UNCHANGED <<source, BATCH_SIZE>>

\* one iteration of the loop: normalize the next message and append its row; an
\* exception of the normalizer leaves ingest; a full batch calls flush_batch
Iterate ==
  /\ pc = "loop"
  /\ i < Len(source)
  /\ LET n == NormalizeRow(source[i + 1])
     IN IF ~n.ok
        THEN /\ pc' = "aborted"
             /\ outcomes' = Append(outcomes, "aborted")
             /\ UNCHANGED <<i, batch, j, inserted_now, skipped_now, flushes>>
        ELSE /\ i' = i + 1
             /\ batch' = Append(batch, n.row)
             /\ IF Len(batch') >= BATCH_SIZE
                THEN /\ pc' = "flush"
                     /\ j' = 1
                     /\ inserted_now' = 0
                     /\ skipped_now' = 0
                     /\ flushes' = Append(flushes, batch')
                ELSE UNCHANGED <<pc, j, inserted_now, skipped_now, flushes>>
             /\ UNCHANGED outcomes
  /\ UNCHANGED <<source, BATCH_SIZE, schema, committed, conn, inserted, skipped,
                 store0, progress>>

\* one iteration of the loop of flush_batch
FlushRow ==
  /\ pc \in {"flush", "final_flush"}
  /\ j <= Len(batch)
  /\ LET st == FlushOne(schema, [db |-> conn, inserted |-> inserted_now,
                                 skipped |-> skipped_now], batch[j])
     IN /\ conn' = st.db
        /\ inserted_now' = st.inserted
        /\ skipped_now' = st.skipped
        /\ committed' = CommittedAfterExecute(committed, st.db)
        /\ j' = NextRow(j, st.skipped = skipped_now, Len(batch))
  /\ UNCHANGED <<source, BATCH_SIZE, schema, pc, i, batch, inserted, skipped, flushes,
                 store0, outcomes, progress>>

\* conn.commit() and the return of a threshold flush: the totals, batch.clear()
\* and the progress line
FlushReturn ==
  /\ pc = "flush"
  /\ j > Len(batch)
  /\ committed' = conn
  /\ inserted' = Accumulate(inserted, inserted_now)
  /\ skipped' = Accumulate(skipped, skipped_now)
  /\ batch' = BatchAfterFlush(batch)
  /\ progress' = IF ProgressDue(i) THEN Append(progress, i) ELSE progress
  /\ pc' = "loop"
  /\ UNCHANGED <<source, BATCH_SIZE, schema, conn, i, j, inserted_now, skipped_now,
                 flushes, store0, outcomes>>

\* the stream is exhausted: flush what is left, or close and print the summary
EndOfStream ==
  /\ pc = "loop"
  /\ i = Len(source)
  /\ IF NeedsFinalFlush(batch)
     THEN /\ pc' = "final_flush"
          /\ j' = 1
          /\ inserted_now' = 0
          /\ skipped_now' = 0
          /\ flushes' = Append(flushes, batch)
          /\ UNCHANGED outcomes
     ELSE /\ pc' = "done"
          /\ outcomes' = Append(outcomes, "done")
          /\ UNCHANGED <<j, inserted_now, skipped_now, flushes>>
  /\ UNCHANGED <<source, BATCH_SIZE, schema, committed, conn, i, batch, inserted,
                 skipped, store0, progress>>

\* conn.commit() and the return of the final flush, conn.close() and the summary
FinalReturn ==
  /\ pc = "final_flush"
  /\ j > Len(batch)
  /\ committed' = conn
  /\ inserted' = Accumulate(inserted, inserted_now)
  /\ skipped' = Accumulate(skipped, skipped_now)
  /\ pc' = "done"
  /\ outcomes' = Append(outcomes, "done")
  /\ UNCHANGED <<source, BATCH_SIZE, schema, conn, i, batch, j, inserted_now,
                 skipped_now, flushes, store0, progress>>

\* the process is terminated from outside: the open transaction is lost with the
\* connection and the memory of the run; i stays as the count of messages the
\* run had taken
Crash ==
  /\ pc \in {"loop", "flush", "final_flush"}
  /\ pc' = "crashed"
  /\ outcomes' = Append(outcomes, "crashed")
  /\ conn' = committed
  /\ batch' = <<>>
  /\ j' = 0
  /\ inserted' = 0
  /\ skipped' = 0
  /\ inserted_now' = 0
  /\ skipped_now' = 0
  /\ flushes' = <<>>
  /\ UNCHANGED <<source, BATCH_SIZE, schema, committed, i, store0, progress>>

Next ==
  \/ Start
  \/ Iterate
  \/ FlushRow
  \/ FlushReturn
  \/ EndOfStream
  \/ FinalReturn
  \/ Crash

Spec == Init /\ [][Next]_vars

(***************************************************************************)
(* Mailboxes of one message over wider sets of Date headers and bodies,    *)
(* for the properties of the normalizer: the same runs of ingest, started  *)
(* from a mailbox that holds one message.                                  *)
(***************************************************************************)
\* most parts of a multipart body
MaxParts == 2

\* Date headers: absent, unparseable, and 01 Jan 2024 at the start, in the
\* middle and at the end of the day, west of, at and east of UTC and without
\* offset
WideDates ==
  {AbsentDate, GarbageDate}
    \cup {DateOf(1, h, m, off) : h \in {0, 10, 23}, m \in {0, 30, 59}, off \in {-1, 0, 1}}
    \cup {NaiveDateOf(1, h, m) : h \in {0, 10, 23}, m \in {0, 30, 59}}

\* parts: plain text, plain text without payload, a plain-text attachment,
\* another attachment, plain text in Latin-1 longer than any preview, plain
\* text in a charset Python does not know, and HTML
WideParts ==
  {Part("text/plain", None, None, <<"b">>),
   Part("text/plain", None, None, <<>>),
   Part("text/plain", "ATTACHMENT; filename=a.txt", None, <<"f">>),
   Part("application/pdf", "attachment", None, <<"p">>),
   Part("text/plain", "inline", "iso-8859-1", <<"0xE9", "l", "o", "n", "g", "e", "r">>),
   Part("text/plain", None, "x-nope", <<"q">>),
   Part("text/html", None, None, <<"h">>)}

WideBodies ==
  {SinglePart(part) : part \in WideParts}
    \cup {MultiPart(parts) : parts \in SeqsUpTo(WideParts, MaxParts)}

\* the message MsgA with another Date header, or with another body
WideMessages ==
  {[MsgA EXCEPT !.Date = d] : d \in WideDates}
    \cup {[MsgA EXCEPT !.Body = b] : b \in WideBodies}

InitOne ==
  /\ source \in {<<msg>> : msg \in WideMessages}
  /\ BATCH_SIZE \in {1, 2}
  /\ schema = {}
  /\ committed = <<>>
  /\ conn = <<>>
  /\ pc = "idle"
  /\ i = 0
  /\ batch = <<>>
  /\ j = 0
  /\ inserted = 0
  /\ skipped = 0
  /\ inserted_now = 0
  /\ skipped_now = 0
  /\ flushes = <<>>
  /\ store0 = <<>>
  /\ outcomes = <<>>
  /\ progress = <<>>

SpecOne == InitOne /\ [][Next]_vars

(***************************************************************************)
(* Vocabulary of the properties.                                           *)
(***************************************************************************)
\* the rows ingest builds from the first k messages of the source
Records(k) == [n \in 1..k |-> NormalizeRow(source[n]).row]

\* a step of the loop of flush_batch is about to handle batch[j]
AtRow == pc \in {"flush", "final_flush"} /\ j >= 1 /\ j <= Len(batch)

\* a step that is the commit and return of a flush
IsCommit == pc \in {"flush", "final_flush"} /\ pc' \in {"loop", "done"}

\* some row of table db has the message_id mid
HasKey(db, mid) == \E n \in 1..Len(db) : db[n].message_id = mid

\* a run has ended in each of the given ways, in this order
Ended(how) == outcomes = how

(***************************************************************************)
(* C1: in every reachable state of the store, durable or inside an open    *)
(* transaction, after any number of flushes and runs, at most one row      *)
(* carries each non-empty message_id.                                      *)
(***************************************************************************)
C1_UniqueNonEmptyMessageId ==
  \A db \in {committed, conn} :
    \A a, b \in 1..Len(db) :
      (db[a].message_id # <<>> /\ db[a].message_id = db[b].message_id) => a = b

\* a second complete run over a source that repeats a non-empty Message-Id
C1_Witness ==
  /\ Ended(<<"done", "done">>)
  /\ \E a, b \in 1..Len(source) :
       a < b /\ source[a].MessageId = IdA /\ source[b].MessageId = IdA
  /\ HasKey(committed, <<"<", "a", ">">>)

(***************************************************************************)
(* C2: in flush, every record whose message_id is empty is inserted        *)
(* unconditionally: the step adds a row to the store and counts nothing as *)
(* skipped, whatever rows with an empty message_id the store holds.        *)
(***************************************************************************)
C2_EmptyIdAlwaysInserted ==
  [][(AtRow /\ ~Truthy(batch[j].message_id) /\ j' = j + 1)
       => (Len(conn') = Len(conn) + 1 /\ skipped_now' = skipped_now)]_vars

(***************************************************************************)
(* C3: no message of the source makes ingest abort: normalization yields a *)
(* record for every message and the run never ends by an exception of the  *)
(* normalizer.                                                             *)
(***************************************************************************)
C3_NeverAborts == pc # "aborted"

(***************************************************************************)
(* C4: in flush, a record whose insert fails is counted as skipped and     *)
(* changes nothing else, the next record is attempted, and the commit at   *)
(* the end makes durable the result of attempting every record of the      *)
(* batch: every record the store can hold has its key durable after the    *)
(* commit, whether a record before or after it failed.                     *)
(***************************************************************************)
C4_FailedRowIsolated ==
  [][/\ (AtRow /\ pc' = pc /\ ~ExecuteRow(schema, conn, batch[j]).ok)
          => /\ skipped_now' = skipped_now + 1
             /\ inserted_now' = inserted_now
             /\ conn' = conn
             /\ committed' = committed
             /\ j' = j + 1
     /\ IsCommit
          => /\ inserted_now + skipped_now = Len(batch)
             /\ committed' = flush_batch(schema, committed, batch).db
             /\ \A n \in 1..Len(batch) :
                  Bindable(batch[n]) => HasKey(committed', batch[n].message_id.s)
             /\ \A n \in 1..Len(committed) : committed'[n] = committed[n]]_vars

\* a committed flush of three records whose second failed and whose first and
\* third were inserted
C4_Witness ==
  /\ pc = "done"
  /\ flushes # <<>>
  /\ LET f == flushes[Len(flushes)]
     IN /\ Len(f) = 3
        /\ Bindable(f[1]) /\ ~Bindable(f[2]) /\ Bindable(f[3])
        /\ f[1].message_id.s # f[3].message_id.s
        /\ HasKey(committed, f[1].message_id.s)
        /\ HasKey(committed, f[3].message_id.s)
  /\ inserted_now = 2
  /\ skipped_now = 1
  /\ Len(committed) = Len(store0) + 2

(***************************************************************************)
(* The end-to-end scenario: (a) Message-Id <a>, Subject =?utf-8?q?Hi?=,    *)
(* Date 01 Jan 2024 10:00 +0000, (b) the same message again, (c) a message *)
(* without Message-Id, ingested into an empty store.                       *)
(***************************************************************************)
Scenario == <<MsgA, MsgA, MsgC>>

\* the scenario with any message without Message-Id as (c)
ScenarioSources == {<<MsgA, MsgA, c>> : c \in {m \in Messages : m.MessageId = NoHeader}}

ScenarioDone(sources) == pc = "done" /\ source \in sources /\ store0 = <<>>

(***************************************************************************)
(* C5: the scenario, with Date "not a date" on (c), leaves exactly 2 rows: *)
(* one for <a> with subject "Hi", date_iso 2024-01-01T10:00:00+00:00 and   *)
(* date_day 2024-01-01, and one with empty message_id, date_iso and        *)
(* date_day.                                                               *)
(***************************************************************************)
C5_ScenarioStore ==
  ScenarioDone({Scenario}) =>
    /\ Len(committed) = 2
    /\ \E a, c \in 1..2 :
         /\ a # c
         /\ committed[a].message_id = <<"<", "a", ">">>
         /\ committed[a].subject = <<"H", "i">>
         /\ committed[a].date_iso =
              <<"2", "0", "2", "4", "-", "0", "1", "-", "0", "1", "T", "1", "0", ":",
                "0", "0", ":", "0", "0", "+", "0", "0", ":", "0", "0">>
         /\ committed[a].date_day = <<"2", "0", "2", "4", "-", "0", "1", "-", "0", "1">>
         /\ committed[c].message_id = <<>>
         /\ committed[c].date_iso = <<>>
         /\ committed[c].date_day = <<>>

\* the scenario has run to its end, through one flush or several
C5_Witness == ScenarioDone({Scenario}) /\ flushes # <<>> /\ i = 3

(***************************************************************************)
(* C6 as stated: the scenario reports inserted = 2 and skipped = 1.        *)
(***************************************************************************)
C6_ScenarioTotals_AsStated ==
  ScenarioDone(ScenarioSources) => (inserted = 2 /\ skipped = 1)

(***************************************************************************)
(* C6 as amended: the scenario reports inserted = 3 and skipped = 0: the   *)
(* duplicate (b) adds no row and is counted as inserted.                   *)
(***************************************************************************)
C6_ScenarioTotals ==
  ScenarioDone(ScenarioSources) =>
    (inserted = 3 /\ skipped = 0 /\ Len(committed) = 2)

\* the scenario has reported its totals, two rows in the store
C6_Witness ==
  ScenarioDone(ScenarioSources) /\ inserted + skipped = 3 /\ Len(committed) = 2

(***************************************************************************)
(* C7: in flush, a record with a non-empty message_id that the store       *)
(* already holds adds no row and is counted as inserted, not as skipped,   *)
(* and the counts of the flush go into the totals unchanged.               *)
(***************************************************************************)
C7_IgnoredDuplicateCountsInserted ==
  [][/\ (AtRow /\ j' = j + 1 /\ Bindable(batch[j]) /\ batch[j].message_id.s # <<>>
           /\ HasKey(conn, batch[j].message_id.s))
          => /\ conn' = conn
             /\ inserted_now' = inserted_now + 1
             /\ skipped_now' = skipped_now
     /\ IsCommit
          => /\ inserted' = inserted + inserted_now
             /\ skipped' = skipped + skipped_now]_vars

\* a complete run whose messages all carry a str Message-Id, fewer rows than
\* messages, every message counted as inserted
C7_Witness ==
  /\ pc = "done"
  /\ source # <<>>
  /\ \A n \in 1..Len(source) : Bindable(Records(Len(source))[n]) /\ source[n].MessageId # NoHeader
  /\ Len(committed) < Len(source)
  /\ inserted = Len(source)
  /\ skipped = 0

(***************************************************************************)
(* C8: at every moment of a run the durable rows are the result of         *)
(* flushing a prefix of the source whose length is a multiple of the batch *)
(* size, or the whole source, and at most one batch's worth of the         *)
(* messages taken so far is not in that prefix.                            *)
(***************************************************************************)
C8_BatchGranularity ==
  pc # "idle" =>
    \E k \in 0..i :
      /\ k % BATCH_SIZE = 0 \/ k = Len(source)
      /\ i - k <= BATCH_SIZE
      /\ committed = flush_batch(schema, store0, Records(k)).db

\* a run terminated inside a batch after an earlier batch was committed
C8_Witness ==
  /\ pc = "crashed"
  /\ committed # store0
  /\ i % BATCH_SIZE # 0
  /\ BATCH_SIZE > 1

(***************************************************************************)
(* Vocabulary of C9: when a run was interrupted and a later run on the     *)
(* same source and store completes, the rows with a non-empty message_id   *)
(* are compared with those of one uninterrupted run on an empty store.     *)
(***************************************************************************)
\* the rows of db with a non-empty message_id, without the rowid
KeyedRows(db) ==
  {[message_id |-> db[n].message_id, date_iso |-> db[n].date_iso,
    date_day |-> db[n].date_day, from_addr |-> db[n].from_addr,
    to_addr |-> db[n].to_addr, cc_addr |-> db[n].cc_addr, subject |-> db[n].subject,
    body_preview |-> db[n].body_preview] : n \in {m \in 1..Len(db) : db[m].message_id # <<>>}}

\* how many rows of db have a non-empty message_id
KeyedCount(db) == Cardinality({n \in 1..Len(db) : db[n].message_id # <<>>})

\* the table one uninterrupted run over the whole source leaves in an empty store
SingleRun == flush_batch(SchemaObjects, <<>>, Records(Len(source))).db

\* the values msg.get("Message-Id", "") or "" takes over the source
SourceIds == {MessageIdOf(source[n]) : n \in 1..Len(source)}

\* a complete run after some run was interrupted
RerunDone == pc = "done" /\ \E n \in 1..Len(outcomes) : outcomes[n] = "crashed"

C10_EveryMessageFlushedOnce ==
  pc = "done" =>
    /\ i = Len(source)
    /\ Join(flushes) = Records(Len(source))
    /\ \A n \in 1..Len(flushes) :
         /\ flushes[n] # <<>>
         /\ Len(flushes[n]) <= BATCH_SIZE
         /\ n < Len(flushes) => Len(flushes[n]) = BATCH_SIZE
    /\ batch = <<>> \/ batch = flushes[Len(flushes)]

\* a complete run that flushed a full batch and then a partial one
C10_Witness ==
  /\ pc = "done"
  /\ Len(flushes) >= 2
  /\ Len(flushes[Len(flushes)]) < BATCH_SIZE

(***************************************************************************)
(* C11: a row once in the store is never updated or deleted: every step of *)
(* every run (schema setup, each insert, each commit) leaves every durable *)
(* row, and every row the open connection sees, where and as it was and    *)
(* only adds rows after them; an insert whose non-empty message_id exists  *)
(* leaves the existing row as it was.  Only the termination of the process *)
(* loses rows, those of the transaction that was never committed.          *)
(***************************************************************************)
\* table after holds every row of table before, at the same rowid, unchanged
Extends(before, after) ==
  /\ Len(after) >= Len(before)
  /\ \A n \in 1..Len(before) : after[n] = before[n]

C11_RowsNeverUpdatedOrDeleted ==
  [][/\ Extends(committed, committed')
     /\ pc' # "crashed" => Extends(conn, conn')
     /\ pc' = "crashed" => conn' = committed]_vars

\* a later complete run that met again, with other fields, a message_id the
\* store held: the row still has the fields of the first run
C11_Witness ==
  /\ Ended(<<"done", "done">>)
  /\ Len(source) >= 2
  /\ source[1] = MsgA
  /\ source[2] = MsgA2
  /\ Len(committed) >= 1
  /\ committed[1].message_id = <<"<", "a", ">">>
  /\ committed[1].subject = <<"H", "i">>
  /\ inserted >= 2

(***************************************************************************)
(* C12: the batch size is not a correctness parameter: a complete run ends *)
(* with the rows, in the order, and with the inserted and skipped totals   *)
(* of one flush of the whole source into the store the run started from,   *)
(* a result in which the batch size does not occur; two complete runs that *)
(* differ only in the batch size therefore end alike.                      *)
(***************************************************************************)
\* one flush of all the rows of the source into the store the run started from
WholeSourceFlush == flush_batch(schema, store0, Records(Len(source)))

C12_BatchSizeIrrelevant ==
  pc = "done" =>
    /\ committed = WholeSourceFlush.db
    /\ inserted = WholeSourceFlush.inserted
    /\ skipped = WholeSourceFlush.skipped

\* a complete run in several flushes, the last one partial, that skipped a
\* record and added a row
C12_Witness ==
  /\ pc = "done"
  /\ BATCH_SIZE = 2
  /\ Len(flushes) = 2
  /\ Len(flushes[2]) = 1
  /\ skipped > 0
  /\ Len(committed) > Len(store0)

(***************************************************************************)
(* Vocabulary of the properties of the normalizer.                         *)
(***************************************************************************)
\* the message of the source that batch[n] was built from
BatchSource(n) == source[i - Len(batch) + n]

\* every record ingest holds or has passed to a flush, and every row of the
\* store, durable or not
AllRecords ==
  {batch[n] : n \in 1..Len(batch)}
    \cup UNION {{flushes[f][n] : n \in 1..Len(flushes[f])} : f \in 1..Len(flushes)}
AllRows == {committed[n] : n \in 1..Len(committed)} \cup {conn[n] : n \in 1..Len(conn)}

\* date_day is empty with date_iso, else its first 10 characters and shorter
DatesAgree(r) ==
  /\ r.date_day = <<>> <=> r.date_iso = <<>>
  /\ r.date_iso # <<>> =>
       /\ Len(r.date_day) = 10
       /\ Len(r.date_day) < Len(r.date_iso)
       /\ \A n \in 1..10 : r.date_day[n] = r.date_iso[n]

(***************************************************************************)
(* C13: for every record produced by ingest and every row in the store,    *)
(* date_day is empty if and only if date_iso is empty, and otherwise       *)
(* date_day is the first 10 characters of date_iso and strictly shorter    *)
(* than it; an absent or unparseable Date yields date_iso = "" and         *)
(* date_day = "".                                                          *)
(***************************************************************************)
C13_DateDayPrefixOfDateIso ==
  /\ \A r \in AllRecords : DatesAgree(r)
  /\ \A r \in AllRows : DatesAgree(r)
  /\ \A n \in 1..Len(batch) :
       BatchSource(n).Date.k \in {"absent", "garbage"}
         => (batch[n].date_iso = <<>> /\ batch[n].date_day = <<>>)

\* a stored row whose date moved to the previous day in UTC
C13_Witness ==
  /\ pc = "done"
  /\ Len(committed) = 1
  /\ source[1].Date = DateOf(1, 0, 30, 1)
  /\ committed[1].date_day = <<"2", "0", "2", "3", "-", "1", "2", "-", "3", "1">>
  /\ Len(committed[1].date_iso) = 25

(***************************************************************************)
(* Vocabulary of C14: the part of a multipart body a preview is taken      *)
(* from.                                                                   *)
(***************************************************************************)
\* the part is plain text and its disposition does not mark an attachment
\* (and, with needPayload, it has a payload)
Qualifies(part, needPayload) ==
  /\ part.ctype = "text/plain"
  /\ part.disp \notin {"attachment", "ATTACHMENT; filename=a.txt"}
  /\ needPayload => part.payload # <<>>

\* the position of the first qualifying part in document order, 0 for none
FirstQualifying(parts, needPayload) ==
  IF \E n \in 1..Len(parts) : Qualifies(parts[n], needPayload)
  THEN CHOOSE n \in 1..Len(parts) :
         /\ Qualifies(parts[n], needPayload)
         /\ \A m \in 1..(n - 1) : ~Qualifies(parts[m], needPayload)
  ELSE 0

\* the charset the part is decoded with, and its text cut to limit characters
PartCharset(part) == IF part.charset = None THEN "utf-8" ELSE part.charset
TruncatedText(part, limit) ==
  LET text == BytesDecode(part.payload, PartCharset(part)).text
  IN [n \in 1..(IF Len(text) < limit THEN Len(text) ELSE limit) |-> text[n]]

(***************************************************************************)
(* C14 as stated: for a multi-part message the preview is the decoded      *)
(* text, truncated to limit characters, of the first part in document      *)
(* order that is plain text and no attachment, that part's text even when  *)
(* it is empty, never the text of a later part; the empty string if no     *)
(* part qualifies; never longer than limit.  (A part in a charset Python   *)
(* does not know has no decoded text and is left open here.)               *)
(***************************************************************************)
C14_PreviewOfFirstPlainPart_AsStated ==
  \A n \in 1..Len(batch) :
    LET body == BatchSource(n).Body
        first == FirstQualifying(body.parts, FALSE)
    IN body.multipart =>
         /\ Len(batch[n].body_preview) <= PREVIEW_LIMIT
         /\ first = 0 => batch[n].body_preview = <<>>
         /\ (first # 0 /\ PartCharset(body.parts[first]) \in KnownCharsets)
              => batch[n].body_preview = TruncatedText(body.parts[first], PREVIEW_LIMIT)

(***************************************************************************)
(* C14 as amended: for a multi-part message the preview is the decoded     *)
(* text, truncated to limit characters, of the first part in document      *)
(* order that is plain text, no attachment and has a non-empty payload (a  *)
(* plain-text part without payload is passed over and a later part may     *)
(* supply the preview), never the text of an attachment; the empty string  *)
(* if no part qualifies or if that part declares a charset Python does not *)
(* know; never longer than limit.                                          *)
(***************************************************************************)
C14_PreviewOfFirstNonEmptyPlainPart ==
  \A n \in 1..Len(batch) :
    LET body == BatchSource(n).Body
        first == FirstQualifying(body.parts, TRUE)
    IN body.multipart =>
         /\ Len(batch[n].body_preview) <= PREVIEW_LIMIT
         /\ first = 0 => batch[n].body_preview = <<>>
         /\ first # 0 =>
              batch[n].body_preview =
                IF PartCharset(body.parts[first]) \in KnownCharsets
                THEN TruncatedText(body.parts[first], PREVIEW_LIMIT)
                ELSE <<>>

\* the preview of a body whose first plain-text part has no payload, taken
\* from the part after it
C14_Witness ==
  /\ batch # <<>>
  /\ BatchSource(1).Body =
       MultiPart(<<Part("text/plain", None, None, <<>>), Part("text/plain", None, None, <<"b">>)>>)
  /\ batch[1].body_preview = <<"b">>

(***************************************************************************)
(* Vocabulary of C15: the progress lines of a run, by message count.       *)
(***************************************************************************)
\* the counts in 1..n, ascending, that are multiples of every number in ds
RECURSIVE MultiplesUpTo(_, _)
MultiplesUpTo(n, ds) ==
  IF n = 0 THEN <<>>
  ELSE IF \A d \in ds : n % d = 0
       THEN Append(MultiplesUpTo(n - 1, ds), n)
       ELSE MultiplesUpTo(n - 1, ds)

\* the messages whose iteration of the loop is over: inside a flush the
\* iteration of the last message taken is still under way
IterationsOver == IF pc \in {"flush", "final_flush"} THEN i - 1 ELSE i

InRun == pc \in {"loop", "flush", "final_flush", "done"}

(***************************************************************************)
(* C15 as stated: for any batch size, exactly one progress notification is *)
(* emitted when the (k * interval)-th message has been processed, for      *)
(* every k >= 1 the source reaches, and none at any other message count.   *)
(***************************************************************************)
C15_ProgressEveryInterval_AsStated ==
  InRun => progress = MultiplesUpTo(IterationsOver, {PROGRESS_EVERY})

(***************************************************************************)
(* C15 as amended: exactly one progress notification is emitted when the   *)
(* (k * interval)-th message has been processed provided k * interval is   *)
(* also a multiple of the batch size (the notification is made only after  *)
(* a threshold flush), and none at any other message count.                *)
(***************************************************************************)
C15_ProgressAtFlushedIntervals ==
  InRun => progress = MultiplesUpTo(IterationsOver, {PROGRESS_EVERY, BATCH_SIZE})

\* a complete run that printed a progress line at the interval and went on
C15_Witness ==
  /\ pc = "done"
  /\ BATCH_SIZE = PROGRESS_EVERY
  /\ progress = <<PROGRESS_EVERY>>
  /\ i > PROGRESS_EVERY

(***************************************************************************)
(* C16: schema setup is idempotent: init_db on a store that already has    *)
(* the emails table and its indexes, with or without rows, succeeds and    *)
(* changes nothing, so any number of calls leave the schema and the rows   *)
(* of one call.  Every run of ingest begins with init_db, so each step     *)
(* that begins a run on a store with the whole schema is such a call (no   *)
(* other step is possible between two runs).                               *)
(***************************************************************************)
C16_InitDbIdempotent ==
  [][(pc \in {"idle", "done", "aborted", "crashed"} /\ SchemaObjects \subseteq schema)
       => /\ pc' = "loop"
          /\ schema' = schema
          /\ committed' = committed
          /\ init_db(schema') = schema'
          /\ TableAfterInitDb(committed') = committed']_vars

\* a second run has begun on a store that has the schema and rows, and found
\* both as the first run left them
C16_Witness ==
  /\ pc = "loop"
  /\ i = 0
  /\ outcomes = <<"done">>
  /\ schema = SchemaObjects
  /\ committed # <<>>
  /\ store0 = committed

(***************************************************************************)
(* Vocabulary of C17: the records passed to flush_batch so far, in order.  *)
(***************************************************************************)
RECURSIVE Flatten(_)
Flatten(seqs) == IF seqs = <<>> THEN <<>> ELSE Head(seqs) \o Flatten(Tail(seqs))

\* the records appended to the batch and not yet passed to flush_batch
Pending == IF pc = "loop" THEN batch ELSE <<>>

(***************************************************************************)
(* C17: the in-memory batch is bounded: at every point of a run it holds   *)
(* at most BATCH_SIZE records, it is flushed as soon as it reaches         *)
(* BATCH_SIZE (between two iterations it is always shorter, and a          *)
(* threshold flush is of exactly BATCH_SIZE records), it is empty          *)
(* immediately after each threshold flush, and no record is passed to      *)
(* flush_batch twice: the batches flushed so far followed by the pending   *)
(* records are the records of the messages taken, each once and in order.  *)
(***************************************************************************)
C17_BatchBounded ==
  /\ Len(batch) <= BATCH_SIZE
  /\ pc = "loop" => /\ Len(batch) < BATCH_SIZE
                    /\ Len(batch) = i % BATCH_SIZE
  /\ pc = "flush" => /\ Len(batch) = BATCH_SIZE
                     /\ flushes[Len(flushes)] = batch
  /\ InRun => Flatten(flushes) \o Pending = Records(i)

\* just after the first threshold flush of two records, more messages to come
C17_Witness ==
  /\ pc = "loop"
  /\ BATCH_SIZE = 2
  /\ i = 2
  /\ Len(source) = 3
  /\ batch = <<>>
  /\ flushes = <<Records(2)>>

(***************************************************************************)
(* Vocabulary of C18: the messages whose flush has returned.               *)
(***************************************************************************)
InFlush == pc \in {"flush", "final_flush"}

\* the records of the flush_batch calls that have returned: all those passed
\* to flush_batch but the batch of the call under way
FlushedCount == Len(Flatten(flushes)) - (IF InFlush THEN Len(batch) ELSE 0)

(***************************************************************************)
(* C18: accounting: each flush returns inserted_now + skipped_now equal to *)
(* the number of records of its batch (inside the call the two counters    *)
(* add up to the rows gone through), at every point of a run the running   *)
(* totals satisfy inserted + skipped = number of messages already flushed, *)
(* and when ingest terminates normally inserted + skipped is the number of *)
(* messages of the source.                                                 *)
(***************************************************************************)
C18_Accounting ==
  /\ InFlush => inserted_now + skipped_now = j - 1
  /\ (InRun /\ ~InFlush /\ flushes # <<>>)
       => inserted_now + skipped_now = Len(flushes[Len(flushes)])
  /\ InRun => inserted + skipped = FlushedCount
  /\ pc = "done" => inserted + skipped = Len(source)

\* a complete run of two flushes in which rows were inserted and rows skipped
C18_Witness ==
  /\ pc = "done"
  /\ Len(source) = 3
  /\ Len(flushes) = 2
  /\ inserted = 2
  /\ skipped = 1

(***************************************************************************)
(* Vocabulary of C19: the columns of a stored row, and of a record as the  *)
(* store would bind it.                                                    *)
(***************************************************************************)
ColumnsOf(r) ==
  [message_id |-> r.message_id, date_iso |-> r.date_iso, date_day |-> r.date_day,
   from_addr |-> r.from_addr, to_addr |-> r.to_addr, cc_addr |-> r.cc_addr,
   subject |-> r.subject, body_preview |-> r.body_preview]

BoundColumns(rec) == ColumnsOf([rec EXCEPT !.message_id = rec.message_id.s])

\* the message at position n carries the str Message-Id mid
Carries(n, mid) == MessageIdOf(source[n]) = [hdr |-> FALSE, s |-> mid]

(***************************************************************************)
(* C19: first occurrence wins: when several messages carry the same        *)
(* non-empty message_id, within one batch, across batches or across runs,  *)
(* the row kept in the store is the one built from the earliest such       *)
(* message in processing order: in every state of the store, durable or    *)
(* inside a transaction, a row with a non-empty message_id has the columns *)
(* of the record of the first message of the source that carries it.       *)
(***************************************************************************)
C19_FirstOccurrenceWins ==
  \A db \in {committed, conn} :
    \A n \in 1..Len(db) :
      db[n].message_id # <<>> =>
        \E first \in 1..Len(source) :
          /\ Carries(first, db[n].message_id)
          /\ \A m \in 1..(first - 1) : ~Carries(m, db[n].message_id)
          /\ ColumnsOf(db[n]) = BoundColumns(NormalizeRow(source[first]).row)

\* two complete runs over three messages with one Message-Id, the second in
\* the batch of the first and the third in a later batch: one row, of the first
C19_Witness ==
  /\ Ended(<<"done", "done">>)
  /\ BATCH_SIZE = 2
  /\ Len(source) = 3
  /\ \A n \in 1..3 : Carries(n, <<"<", "a", ">">>)
  /\ source[2] # source[1]
  /\ source[3] # source[1]
  /\ Len(committed) = 1
  /\ ColumnsOf(committed[1]) = BoundColumns(Records(3)[1])

=============================================================================
